---- MODULE Spec2Model ----
(***************************************************************************)
(* Model of src/src/schnetpack/representation/painn.py.                    *)
(*                                                                         *)
(* Tensors are modelled by their shapes (sequences of naturals, torch's    *)
(* x.shape); the operators below follow torch's shape rules for the calls  *)
(* the source makes (broadcasting, nn.Linear, advanced indexing, split,    *)
(* cat, einsum).  Where a claim is about values (grouped summation, the    *)
(* compression einsum) the values are integers.  An exception raised by a  *)
(* call is a result [raised |-> TRUE, line |-> <source line>, ...].        *)
(***************************************************************************)
EXTENDS Integers, Sequences, FiniteSets, TLC

\* ------------------------------------------------------------------ bounds
MaxBasis  == 4      \* n_atom_basis passed to PaiNN.__init__ ranges over 2..MaxBasis
MaxRounds == 3      \* n_interactions ranges over 0..MaxRounds
MaxAtoms  == 2      \* atoms of the input record, 1..MaxAtoms
MaxEdges  == 2      \* edges of the input record, 0..MaxEdges
MaxBlockBasis == 3  \* n_atom_basis of a block called directly, 1..MaxBlockBasis
MaxBatch == 1       \* batch rows of a CompressionLayer input, 0..MaxBatch
MaxChannels == 2    \* vector channels and compressed channels, 1..MaxChannels
WeightScale == 4    \* softmax weights are multiples of 1/WeightScale

\* --------------------------------------------------------- program constants
Spatial == 3        \* spatial components of a vector feature

\* ------------------------------------------------------------ shape helpers
Max(a, b) == IF a >= b THEN a ELSE b

Last(s) == s[Len(s)]

DropLast(s) == SubSeq(s, 1, Len(s) - 1)

SetLast(s, w) == Append(DropLast(s), w)

\* the sequence <<f[1], ..., f[k]>>
RECURSIVE Tuple(_, _)
Tuple(f, k) == IF k = 0 THEN <<>> ELSE Append(Tuple(f, k - 1), f[k])

Pad(s, k) == Tuple([d \in 1..k |-> IF d <= k - Len(s) THEN 1 ELSE s[d - (k - Len(s))]], k)

\* torch broadcasting of two shapes, aligned at the last dimension
CanBroadcast(s, t) ==
    LET k == Max(Len(s), Len(t))
        a == Pad(s, k)
        b == Pad(t, k)
    IN  \A d \in 1..k : a[d] = b[d] \/ a[d] = 1 \/ b[d] = 1

Broadcast(s, t) ==
    LET k == Max(Len(s), Len(t))
        a == Pad(s, k)
        b == Pad(t, k)
    IN  Tuple([d \in 1..k |-> IF a[d] = 1 THEN b[d] ELSE a[d]], k)

\* nn.Linear / snn.Dense(in_features, out_features): the last dimension of the
\* input must be in_features
LinearOk(s, in_features) == Len(s) >= 1 /\ Last(s) = in_features

\* x[idx] with a 1-d integer index: every entry in [-x.shape[0], x.shape[0])
IndexOk(s, idx) ==
    /\ Len(s) >= 1
    /\ \A e \in 1..Len(idx) : idx[e] >= -s[1] /\ idx[e] < s[1]

Gather(s, idx) == <<Len(idx)>> \o Tail(s)

\* torch.split(x, split_size, dim=-1): widths of the chunks
SplitOk(w, split_size) == split_size > 0 \/ w = 0

SplitSizes(w, split_size) ==
    IF w = 0 THEN <<0>>
    ELSE LET k == (w + split_size - 1) \div split_size
         IN  Tuple([c \in 1..k |-> IF c * split_size <= w THEN split_size
                                    ELSE w - (c - 1) * split_size], k)

\* torch.transpose(x, 1, 2)
Transpose12(s) == <<s[1], s[3], s[2]>> \o SubSeq(s, 4, Len(s))

\* torch.cat([a, b], dim=-1)
CatOk(s, t) == Len(s) = Len(t) /\ Len(s) >= 1 /\ DropLast(s) = DropLast(t)

Cat(s, t) == SetLast(s, Last(s) + Last(t))

\* torch.sum(x, dim=d, keepdim=True), d counted from 1 here
KeepDim(s, d) == SubSeq(s, 1, d - 1) \o <<1>> \o SubSeq(s, d + 1, Len(s))

\* snn.scatter_add(x, idx_i, dim_size): grouped sum over the first dimension
ScatterOk(s, idx, dim_size) ==
    /\ Len(s) >= 1
    /\ s[1] = Len(idx)
    /\ \A e \in 1..Len(idx) : idx[e] >= 0 /\ idx[e] < dim_size

ScatterShape(s, dim_size) == <<dim_size>> \o Tail(s)

\* ------------------------------------------------------------ call results
NoShape == <<>>

\* the frame of a call that raised at a source line
Fail(st, line, kind) == [st EXCEPT !.raised = TRUE, !.line = line, !.kind = kind]

LayerRaised(line, kind) == [raised |-> TRUE, line |-> line, kind |-> kind, shape |-> NoShape]

LayerReturned(shape) == [raised |-> FALSE, line |-> 0, kind |-> "none", shape |-> shape]

\* --------------------------------------- EquivariantCompressionLayer.forward
\* num_vector_channels, compressed_channels: the widths given to __init__;
\* vectors: shape of the argument
CompressionForward(num_vector_channels, compressed_channels, vectors) ==
    IF Len(vectors) < 1 THEN LayerRaised(27, "IndexError")
    ELSE IF ~LinearOk(DropLast(vectors), num_vector_channels)          \* lines 27, 30
    THEN LayerRaised(30, "RuntimeError")
    ELSE IF Len(vectors) # 3                                           \* line 34
    THEN LayerRaised(34, "RuntimeError")
    ELSE LayerReturned(<<vectors[1], compressed_channels, vectors[3]>>)

\* ------------------------------------- EquivariantReconstructionLayer.forward
ReconstructionForward(compressed_channels, reconstructed_channels, compressed_vectors) ==
    IF Len(compressed_vectors) < 1 THEN LayerRaised(55, "IndexError")
    ELSE IF ~LinearOk(DropLast(compressed_vectors), compressed_channels)  \* lines 55, 58
    THEN LayerRaised(58, "RuntimeError")
    ELSE IF Len(compressed_vectors) # 3                                \* line 64
    THEN LayerRaised(64, "RuntimeError")
    ELSE LayerReturned(<<compressed_vectors[1], reconstructed_channels,   \* line 69
                         compressed_vectors[3], compressed_vectors[3]>>)

\* torch.transpose(input, dim0, dim1) takes three arguments; a module's
\* forward(self, vectors) takes one
TransposeCallOk(nargs) == nargs = 3

ForwardCallOk(nargs) == nargs = 1

\* ------------------------------------------------- PaiNNInteraction.forward
\* The frame of one call: the arguments and the locals, as shapes.  F is
\* self.n_atom_basis of the block.  Each operator I<line> is the statement at
\* that source line; a frame that has raised passes through unchanged.
InteractionFrame(F, q, mu, Wij, dir_ij, idx_i, idx_j, n_atoms) ==
    [raised |-> FALSE, line |-> 0, kind |-> "none",
     F |-> F, q |-> q, mu |-> mu, Wij |-> Wij, dir_ij |-> dir_ij,
     idx_i |-> idx_i, idx_j |-> idx_j, n_atoms |-> n_atoms,
     x |-> NoShape, xj |-> NoShape, muj |-> NoShape, mui |-> NoShape,
     dq |-> NoShape, dmuR |-> NoShape, dmumu |-> NoShape,
     compressed_vector_vj |-> NoShape, dmu |-> NoShape,
     compressed_vector_vi |-> NoShape, dtm |-> NoShape,
     dq_aggregated |-> FALSE, dmu_aggregated |-> FALSE]

I122(st) ==
    IF st.raised THEN st
    ELSE IF ~LinearOk(st.q, st.F) THEN Fail(st, 122, "RuntimeError")
    ELSE [st EXCEPT !.x = SetLast(st.q, 3 * st.F)]

I123(st) ==
    IF st.raised THEN st
    ELSE IF ~IndexOk(st.x, st.idx_j) THEN Fail(st, 123, "IndexError")
    ELSE [st EXCEPT !.xj = Gather(st.x, st.idx_j)]

I124(st) ==
    IF st.raised THEN st
    ELSE IF ~IndexOk(st.mu, st.idx_j) THEN Fail(st, 124, "IndexError")
    ELSE [st EXCEPT !.muj = Gather(st.mu, st.idx_j)]

I125(st) ==
    IF st.raised THEN st
    ELSE IF ~IndexOk(st.mu, st.idx_i) THEN Fail(st, 125, "IndexError")
    ELSE [st EXCEPT !.mui = Gather(st.mu, st.idx_i)]

I126(st) ==
    IF st.raised THEN st
    ELSE IF ~CanBroadcast(st.Wij, st.xj) THEN Fail(st, 126, "RuntimeError")
    ELSE [st EXCEPT !.x = Broadcast(st.Wij, st.xj)]

\* dq, dmuR, dmumu = torch.split(x, self.n_atom_basis, dim=-1)
I128(st) ==
    IF st.raised THEN st
    ELSE IF ~SplitOk(Last(st.x), st.F) THEN Fail(st, 128, "RuntimeError")
    ELSE IF Len(SplitSizes(Last(st.x), st.F)) # 3 THEN Fail(st, 128, "ValueError")
    ELSE [st EXCEPT !.dq    = SetLast(st.x, SplitSizes(Last(st.x), st.F)[1]),
                    !.dmuR  = SetLast(st.x, SplitSizes(Last(st.x), st.F)[2]),
                    !.dmumu = SetLast(st.x, SplitSizes(Last(st.x), st.F)[3])]

I129(st) ==
    IF st.raised THEN st
    ELSE IF ~ScatterOk(st.dq, st.idx_i, st.n_atoms) THEN Fail(st, 129, "RuntimeError")
    ELSE [st EXCEPT !.dq = ScatterShape(st.dq, st.n_atoms), !.dq_aggregated = TRUE]

\* compression_layer was built for 2F vector channels compressed to F (lines 91-93)
I130(st) ==
    IF st.raised THEN st
    ELSE IF CompressionForward(2 * st.F, st.F, st.muj).raised
    THEN Fail(st, 130, CompressionForward(2 * st.F, st.F, st.muj).kind)
    ELSE [st EXCEPT !.compressed_vector_vj = CompressionForward(2 * st.F, st.F, st.muj).shape]

\* dmu = dmuR * dir_ij[..., None] + dmumu * compressed_vector_vj
I131(st) ==
    IF st.raised THEN st
    ELSE IF \/ ~CanBroadcast(st.dmuR, st.dir_ij \o <<1>>)
            \/ ~CanBroadcast(st.dmumu, st.compressed_vector_vj)
    THEN Fail(st, 131, "RuntimeError")
    ELSE IF ~CanBroadcast(Broadcast(st.dmuR, st.dir_ij \o <<1>>),
                          Broadcast(st.dmumu, st.compressed_vector_vj))
    THEN Fail(st, 131, "RuntimeError")
    ELSE [st EXCEPT !.dmu = Broadcast(Broadcast(st.dmuR, st.dir_ij \o <<1>>),
                                      Broadcast(st.dmumu, st.compressed_vector_vj))]

I132(st) ==
    IF st.raised THEN st
    ELSE IF ~ScatterOk(st.dmu, st.idx_i, st.n_atoms) THEN Fail(st, 132, "RuntimeError")
    ELSE [st EXCEPT !.dmu = ScatterShape(st.dmu, st.n_atoms), !.dmu_aggregated = TRUE]

\* compressed_vector_vi = self.compression_layer(torch.transpose(mui), 1, 2):
\* torch.transpose is called with one argument and compression_layer with three
I136(st) ==
    IF st.raised THEN st
    ELSE IF ~TransposeCallOk(1) \/ ~ForwardCallOk(3) THEN Fail(st, 136, "TypeError")
    ELSE IF Len(st.mui) < 3 THEN Fail(st, 136, "IndexError")
    ELSE IF CompressionForward(2 * st.F, st.F, Transpose12(st.mui)).raised
    THEN Fail(st, 136, CompressionForward(2 * st.F, st.F, Transpose12(st.mui)).kind)
    ELSE [st EXCEPT !.compressed_vector_vi =
                        CompressionForward(2 * st.F, st.F, Transpose12(st.mui)).shape]

\* q = q + dq
I137(st) ==
    IF st.raised THEN st
    ELSE IF ~CanBroadcast(st.q, st.dq) THEN Fail(st, 137, "RuntimeError")
    ELSE [st EXCEPT !.q = Broadcast(st.q, st.dq)]

\* mu = dmu + torch.transpose(compressed_vector_vi, 1, 2): the incoming mu is
\* not a term
I138(st) ==
    IF st.raised THEN st
    ELSE IF ~CanBroadcast(st.dmu, Transpose12(st.compressed_vector_vi))
    THEN Fail(st, 138, "RuntimeError")
    ELSE [st EXCEPT !.mu = Broadcast(st.dmu, Transpose12(st.compressed_vector_vi))]

\* dtm = self.reconstruction_layer(torch.transpose(mu, 1, 2)), built F to F
\* (lines 95-97)
I139(st) ==
    IF st.raised THEN st
    ELSE IF Len(st.mu) < 3 THEN Fail(st, 139, "IndexError")
    ELSE IF ReconstructionForward(st.F, st.F, Transpose12(st.mu)).raised
    THEN Fail(st, 139, ReconstructionForward(st.F, st.F, Transpose12(st.mu)).kind)
    ELSE [st EXCEPT !.dtm = ReconstructionForward(st.F, st.F, Transpose12(st.mu)).shape]

\* the frame when the call ends: returned (line 141) or raised
InteractionForward(F, q, mu, Wij, dir_ij, idx_i, idx_j, n_atoms) ==
    I139(I138(I137(I136(I132(I131(I130(I129(I128(I126(I125(I124(I123(I122(
        InteractionFrame(F, q, mu, Wij, dir_ij, idx_i, idx_j, n_atoms)))))))))))))))

\* ------------------------------------------------------ PaiNNMixing.forward
MixingFrame(F, q, mu, dtm) ==
    [raised |-> FALSE, line |-> 0, kind |-> "none",
     F |-> F, q |-> q, mu |-> mu, dtm |-> dtm,
     mu_V |-> NoShape, mu_W |-> NoShape, mu_Vn |-> NoShape, ctx |-> NoShape,
     dq_intra |-> NoShape, dmu_intra |-> NoShape, dqmu_intra |-> NoShape,
     tensor_vector |-> NoShape]

\* mu_mix = self.mu_channel_mix(mu), Dense(F, 2F); split into mu_V, mu_W
M177(st) ==
    IF st.raised THEN st
    ELSE IF ~LinearOk(st.mu, st.F) THEN Fail(st, 177, "RuntimeError")
    ELSE IF ~SplitOk(2 * st.F, st.F) THEN Fail(st, 178, "RuntimeError")
    ELSE IF Len(SplitSizes(2 * st.F, st.F)) # 2 THEN Fail(st, 178, "ValueError")
    ELSE [st EXCEPT !.mu_V = SetLast(st.mu, SplitSizes(2 * st.F, st.F)[1]),
                    !.mu_W = SetLast(st.mu, SplitSizes(2 * st.F, st.F)[2])]

\* mu_Vn = sqrt(sum(mu_V**2, dim=-2, keepdim=True) + epsilon)
M179(st) ==
    IF st.raised THEN st
    ELSE IF Len(st.mu_V) < 2 THEN Fail(st, 179, "IndexError")
    ELSE [st EXCEPT !.mu_Vn = KeepDim(st.mu_V, Len(st.mu_V) - 1)]

M181(st) ==
    IF st.raised THEN st
    ELSE IF ~CatOk(st.q, st.mu_Vn) THEN Fail(st, 181, "RuntimeError")
    ELSE [st EXCEPT !.ctx = Cat(st.q, st.mu_Vn)]

\* x = self.intraatomic_context_net(ctx), Dense(2F, F) then Dense(F, 3F); split
M182(st) ==
    IF st.raised THEN st
    ELSE IF ~LinearOk(st.ctx, 2 * st.F) THEN Fail(st, 182, "RuntimeError")
    ELSE IF ~SplitOk(3 * st.F, st.F) THEN Fail(st, 184, "RuntimeError")
    ELSE IF Len(SplitSizes(3 * st.F, st.F)) # 3 THEN Fail(st, 184, "ValueError")
    ELSE [st EXCEPT !.dq_intra   = SetLast(st.ctx, SplitSizes(3 * st.F, st.F)[1]),
                    !.dmu_intra  = SetLast(st.ctx, SplitSizes(3 * st.F, st.F)[2]),
                    !.dqmu_intra = SetLast(st.ctx, SplitSizes(3 * st.F, st.F)[3])]

M185(st) ==
    IF st.raised THEN st
    ELSE IF ~CanBroadcast(st.dmu_intra, st.mu_W) THEN Fail(st, 185, "RuntimeError")
    ELSE [st EXCEPT !.dmu_intra = Broadcast(st.dmu_intra, st.mu_W)]

\* dqmu_intra = dqmu_intra * torch.sum(mu_V * mu_W, dim=1, keepdim=True)
M187(st) ==
    IF st.raised THEN st
    ELSE IF ~CanBroadcast(st.mu_V, st.mu_W) THEN Fail(st, 187, "RuntimeError")
    ELSE IF ~CanBroadcast(st.dqmu_intra, KeepDim(Broadcast(st.mu_V, st.mu_W), 2))
    THEN Fail(st, 187, "RuntimeError")
    ELSE [st EXCEPT !.dqmu_intra =
                        Broadcast(st.dqmu_intra, KeepDim(Broadcast(st.mu_V, st.mu_W), 2))]

\* q = q + torch.cat([dq_intra, dqmu_intra], dim=-1)
M191(st) ==
    IF st.raised THEN st
    ELSE IF ~CatOk(st.dq_intra, st.dqmu_intra) THEN Fail(st, 191, "RuntimeError")
    ELSE IF ~CanBroadcast(st.q, Cat(st.dq_intra, st.dqmu_intra))
    THEN Fail(st, 191, "RuntimeError")
    ELSE [st EXCEPT !.q = Broadcast(st.q, Cat(st.dq_intra, st.dqmu_intra))]

\* tensor_vector = einsum('bfij,bfj->bfi', dtm, transpose(q, 1, 2)): the sizes
\* under one letter must be broadcastable
M192(st) ==
    IF st.raised THEN st
    ELSE IF Len(st.q) # 3 \/ Len(st.dtm) # 4 THEN Fail(st, 192, "RuntimeError")
    ELSE IF \/ ~CanBroadcast(<<st.dtm[1]>>, <<st.q[1]>>)
            \/ ~CanBroadcast(<<st.dtm[2]>>, <<st.q[3]>>)
            \/ ~CanBroadcast(<<st.dtm[4]>>, <<st.q[2]>>)
    THEN Fail(st, 192, "RuntimeError")
    ELSE [st EXCEPT !.tensor_vector =
                        Broadcast(<<st.dtm[1]>>, <<st.q[1]>>)
                        \o Broadcast(<<st.dtm[2]>>, <<st.q[3]>>)
                        \o <<st.dtm[3]>>]

\* mu = mu + torch.cat([dmu_intra, torch.transpose(tensor_vector, 1, 2)], dim=-1)
M193(st) ==
    IF st.raised THEN st
    ELSE IF ~CatOk(st.dmu_intra, Transpose12(st.tensor_vector))
    THEN Fail(st, 193, "RuntimeError")
    ELSE IF ~CanBroadcast(st.mu, Cat(st.dmu_intra, Transpose12(st.tensor_vector)))
    THEN Fail(st, 193, "RuntimeError")
    ELSE [st EXCEPT !.mu = Broadcast(st.mu, Cat(st.dmu_intra, Transpose12(st.tensor_vector)))]

\* the frame when the call ends: returned (line 195) or raised
MixingForward(F, q, mu, dtm) ==
    M193(M192(M191(M187(M185(M182(M181(M179(M177(MixingFrame(F, q, mu, dtm))))))))))

\* ------------------------------------------------------------------- state
VARIABLES
    self,          \* the PaiNN object after __init__
    inputs,        \* the caller's record on entry: n_atoms, idx_i, idx_j
    pc,            \* position in PaiNN.forward
    filter_list,   \* widths of the entries of filter_list (line 312/314)
    q,             \* shape of q
    mu,            \* shape of mu
    i,             \* loop index of line 325
    calls,         \* the block calls made so far, in order
    err,           \* the exception that ended the evaluation, if any
    out,           \* the keys forward has written into the caller's record
    blk,           \* a block called directly by a client
    cl             \* a CompressionLayer called directly, with values

vars == <<self, inputs, pc, filter_list, q, mu, i, calls, err, out, blk, cl>>

NoErr == [line |-> 0, kind |-> "none"]

NoOut == [scalar_representation |-> NoShape, vector_representation |-> NoShape]

Idle == [phase |-> "idle"]

\* index values a neighbour list of the record may hold for n atoms: the valid
\* ones and one past the range
IndexValues(n) == 0..n

EdgeLists(n, k) == {Tuple(f, k) : f \in [1..k -> IndexValues(n)]}

\* ---------------------------------------------------------- PaiNN.__init__
\* n_atom_basis, n_interactions, shared_filters: the constructor's arguments;
\* embedding_dim: the width of nuclear_embedding (n_atom_basis when it is None)
Construct(n_atom_basis, n_interactions, shared_filters, nuclear_embedding, embedding_dim) ==
    [n_atom_basis      |-> n_atom_basis \div 2,                        \* line 241
     n_interactions    |-> n_interactions,                             \* line 242
     nuclear_embedding |-> nuclear_embedding,
     embedding_dim     |-> IF nuclear_embedding = "default"
                           THEN n_atom_basis ELSE embedding_dim,       \* lines 248-250
     share_filters     |-> shared_filters,                             \* line 257
     filter_out        |-> IF shared_filters THEN 3 * n_atom_basis     \* lines 258-267
                           ELSE n_interactions * n_atom_basis * 3]

Objects ==
    {Construct(a, n, sh, "default", a) :
        a \in 2..MaxBasis, n \in 0..MaxRounds, sh \in BOOLEAN}
    \cup
    {Construct(a, n, sh, "custom", a \div 2) :
        a \in 2..MaxBasis, n \in 0..MaxRounds, sh \in BOOLEAN}

\* the caller's records: idx_i and idx_j have the same length
RecordsOf(n, k) ==
    {[n_atoms |-> n, idx_i |-> ii, idx_j |-> ij] :
        ii \in EdgeLists(n, k), ij \in EdgeLists(n, k)}

Records == UNION {RecordsOf(n, k) : n \in 1..MaxAtoms, k \in 0..MaxEdges}

Init ==
    /\ self \in Objects
    /\ inputs \in Records
    /\ pc = "start"
    /\ filter_list = <<>>
    /\ q = NoShape
    /\ mu = NoShape
    /\ i = 0
    /\ calls = <<>>
    /\ err = NoErr
    /\ out = NoOut
    /\ blk = Idle
    /\ cl = Idle

n_edges == Len(inputs.idx_i)

\* lines 298-314: pair features and the per-round filters
ComputeFilters ==
    /\ pc = "start"
    /\ IF self.share_filters
       THEN /\ filter_list' = Tuple([k \in 1..self.n_interactions |-> self.filter_out],
                                    self.n_interactions)                \* line 312
            /\ pc' = "embed"
            /\ err' = err
       ELSE IF ~SplitOk(self.filter_out, 3 * self.n_atom_basis)
       THEN /\ filter_list' = filter_list
            /\ pc' = "failed"
            /\ err' = [line |-> 314, kind |-> "RuntimeError"]
       ELSE /\ filter_list' = SplitSizes(self.filter_out, 3 * self.n_atom_basis)
            /\ pc' = "embed"
            /\ err' = err
    /\ UNCHANGED <<self, inputs, q, mu, i, calls, out, blk, cl>>

\* lines 317-324: initial embeddings
InitialEmbeddings ==
    /\ pc = "embed"
    /\ q' = <<inputs.n_atoms, 1, self.embedding_dim>>                  \* lines 317, 320
    /\ mu' = <<inputs.n_atoms, Spatial, self.embedding_dim * 2>>       \* lines 323-324
    /\ pc' = "loop"
    /\ UNCHANGED <<self, inputs, filter_list, i, calls, err, out, blk, cl>>

Call(block, round, r) == [block |-> block, round |-> round, raised |-> r.raised]

\* RoundBody with an exception of the interaction block swallowed: the pass
\* ends normally with q and mu as they were
RoundBodySwallow(F, q0, mu0, Wij, dir_ij, idx_i, idx_j, n_atoms, round) ==
    LET r == InteractionForward(F, q0, mu0, Wij, dir_ij, idx_i, idx_j, n_atoms) IN
    [raised |-> FALSE, line |-> 0, kind |-> "none", q |-> q0, mu |-> mu0,
     called |-> <<Call("interaction", round, r)>>]

\* lines 326-327: one pass of the loop body
RoundBody(F, q0, mu0, Wij, dir_ij, idx_i, idx_j, n_atoms, round) ==
    LET r == InteractionForward(F, q0, mu0, Wij, dir_ij, idx_i, idx_j, n_atoms) IN
    IF r.raised
    THEN [raised |-> TRUE, line |-> r.line, kind |-> r.kind, q |-> q0, mu |-> mu0,
          called |-> <<Call("interaction", round, r)>>]
    ELSE LET m == MixingForward(F, r.q, r.mu, r.dtm) IN
         IF m.raised
         THEN [raised |-> TRUE, line |-> m.line, kind |-> m.kind, q |-> q0, mu |-> mu0,
               called |-> <<Call("interaction", round, r), Call("mixing", round, m)>>]
         ELSE [raised |-> FALSE, line |-> 0, kind |-> "none", q |-> m.q, mu |-> m.mu,
               called |-> <<Call("interaction", round, r), Call("mixing", round, m)>>]

\* line 325: filter_list[i] of the zip's i-th pass
FilterAt(list, k) == IF k + 1 > Len(list) THEN -1 ELSE list[k + 1]

RoundOutcome(F, q0, mu0, list, n, idx_i, idx_j, n_atoms, round) ==
    IF FilterAt(list, round) < 0
    THEN [raised |-> TRUE, line |-> 326, kind |-> "IndexError", q |-> q0, mu |-> mu0,
          called |-> <<>>]
    ELSE RoundBody(F, q0, mu0, <<n, 1, FilterAt(list, round)>>, <<n, Spatial>>,
                   idx_i, idx_j, n_atoms, round)

Round ==
    /\ pc = "loop"
    /\ i < self.n_interactions
    /\ LET r == RoundOutcome(self.n_atom_basis, q, mu, filter_list, n_edges,
                             inputs.idx_i, inputs.idx_j, inputs.n_atoms, i)
       IN  /\ calls' = calls \o r.called
           /\ pc' = IF r.raised THEN "failed" ELSE pc
           /\ err' = IF r.raised THEN [line |-> r.line, kind |-> r.kind] ELSE err
           /\ q' = r.q
           /\ mu' = r.mu
           /\ i' = IF r.raised THEN i ELSE i + 1
    /\ UNCHANGED <<self, inputs, filter_list, out, blk, cl>>

\* q.squeeze(1)
Squeeze1(s) == IF Len(s) >= 2 /\ s[2] = 1 THEN <<s[1]>> \o SubSeq(s, 3, Len(s)) ELSE s

\* lines 328-334: collect results
CollectResults ==
    /\ pc = "loop"
    /\ i >= self.n_interactions
    /\ out' = [scalar_representation |-> Squeeze1(q), vector_representation |-> mu]
    /\ pc' = "done"
    /\ UNCHANGED <<self, inputs, filter_list, q, mu, i, calls, err, blk, cl>>

Next == ComputeFilters \/ InitialEmbeddings \/ Round \/ CollectResults

Spec == Init /\ [][Next]_vars

\* ------------------------------------------------------- PaiNN.forward claims
Terminated == pc \in {"done", "failed"}

\* every idx_i and idx_j in [0, atoms)
InRange(idx, n) == \A e \in 1..Len(idx) : idx[e] >= 0 /\ idx[e] < n

WellFormed == InRange(inputs.idx_i, inputs.n_atoms) /\ InRange(inputs.idx_j, inputs.n_atoms)

BadIndex == ~WellFormed

\* the calls of N complete rounds, in order
RECURSIVE RoundsOf(_)
RoundsOf(n) ==
    IF n = 0 THEN <<>>
    ELSE RoundsOf(n - 1) \o <<[block |-> "interaction", round |-> n - 1, raised |-> FALSE],
                               [block |-> "mixing", round |-> n - 1, raised |-> FALSE]>>

RECURSIVE Pow2(_)
Pow2(n) == IF n = 0 THEN 1 ELSE 2 * Pow2(n - 1)

\* C1: a forward evaluation on well-formed input ends having made exactly N
\* rounds of calls, each an InteractionBlock call followed by the MixingBlock
\* call of the same round, q and mu threaded from one round to the next.
C1_ExactlyNRounds ==
    (Terminated /\ WellFormed) =>
        /\ calls = RoundsOf(self.n_interactions)
        /\ i = self.n_interactions

\* C2: a forward evaluation on well-formed input completes without raising and
\* writes both representations; with 2 atoms, idx_i = [0,1], idx_j = [1,0],
\* n_atom_basis 4 and one round the outputs have shapes [2,8] and [2,3,8].
C2_CompletesAndWrites ==
    (Terminated /\ WellFormed) =>
        /\ pc = "done"
        /\ err = NoErr
        /\ out.scalar_representation # NoShape
        /\ out.vector_representation # NoShape
        /\ (/\ inputs = [n_atoms |-> 2, idx_i |-> <<0, 1>>, idx_j |-> <<1, 0>>]
            /\ self.embedding_dim = 4
            /\ self.n_interactions = 1)
           => /\ out.scalar_representation = <<2, 8>>
              /\ out.vector_representation = <<2, Spatial, 8>>

\* C3: for N in {1,2,3} rounds the emitted scalar_representation has the width
\* q had before round 1 doubled N times.
C3_ScalarWidthDoubles ==
    (Terminated /\ WellFormed /\ self.n_interactions \in 1..3) =>
        /\ Len(out.scalar_representation) = 2
        /\ Last(out.scalar_representation) = self.embedding_dim * Pow2(self.n_interactions)

\* C4: mu has shape [atoms, 3, 2F], F the basis width the blocks are built
\* with, whenever it exists: at initialisation, after every block call and in
\* the emitted vector_representation.
C4_VectorWidthTwiceBasis ==
    /\ mu # NoShape => mu = <<inputs.n_atoms, Spatial, 2 * self.n_atom_basis>>
    /\ out.vector_representation # NoShape =>
           out.vector_representation = <<inputs.n_atoms, Spatial, 2 * self.n_atom_basis>>

\* the filter of round k was handed to an InteractionBlock with a width other
\* than 3F
BadFilterPassed ==
    \E k \in 1..Len(calls) :
        /\ calls[k].block = "interaction"
        /\ FilterAt(filter_list, calls[k].round) # 3 * self.n_atom_basis

C6_FilterWidths ==
    (pc \in {"embed", "loop", "done", "failed"} /\ self.n_interactions >= 1) =>
        /\ Len(filter_list) = self.n_interactions
        /\ \A k \in 1..Len(filter_list) : filter_list[k] = 3 * self.n_atom_basis
        /\ self.filter_out = IF self.share_filters THEN 3 * self.n_atom_basis
                             ELSE 3 * self.n_atom_basis * self.n_interactions

\* ------------------------------------------------ values of grouped sums
\* Values follow one representative entry per row: a tensor whose rows are
\* uniform is the sequence of its row values.

\* x[idx] on row values; a negative index counts from the end
GatherVals(vals, idx) ==
    Tuple([e \in 1..Len(idx) |->
              vals[IF idx[e] < 0 THEN idx[e] + Len(vals) + 1 ELSE idx[e] + 1]], Len(idx))

\* elementwise product and sum of two value sequences of equal length
MulVals(a, b) == Tuple([e \in 1..Len(a) |-> a[e] * b[e]], Len(a))

AddVals(a, b) == Tuple([e \in 1..Len(a) |-> a[e] + b[e]], Len(a))

\* snn.scatter_add: rows of vals accumulated, in edge order, into dim_size
\* rows that start at zero
RECURSIVE Accumulated(_, _, _, _)
Accumulated(vals, idx, a, e) ==
    IF e = 0 THEN 0
    ELSE Accumulated(vals, idx, a, e - 1) + (IF idx[e] = a THEN vals[e] ELSE 0)

ScatterAdd(vals, idx, dim_size) ==
    Tuple([a \in 1..dim_size |-> Accumulated(vals, idx, a - 1, Len(idx))], dim_size)

\* the sum over the V input channels of a uniform row of value m that the
\* compression einsum forms (line 34), per unit weight
CompressedVals(V, vals) == Tuple([e \in 1..Len(vals) |-> V * vals[e]], Len(vals))

\* ---------------------------------------- blocks called directly by a client
BlockIndexValues(n) == (-1)..n

BlockEdgeLists(n, k) == {Tuple(f, k) : f \in [1..k -> BlockIndexValues(n)]}

ValueLists(k, S) == {Tuple(f, k) : f \in [1..k -> S]}

\* mu as the data model lays it out, [atoms, 3, 2F], or channel-first
MuShape(layout, n, F) ==
    IF layout = "spatial_first" THEN <<n, Spatial, 2 * F>> ELSE <<n, 2 * F, Spatial>>

InteractionArgs(F, n, k, qw, layout, ww, ii, ij, xv, dv, mv) ==
    [block |-> "interaction", F |-> F, q |-> <<n, 1, qw>>, mu |-> MuShape(layout, n, F),
     Wij |-> <<k, 1, ww>>, dir_ij |-> <<k, Spatial>>, idx_i |-> ii, idx_j |-> ij,
     n_atoms |-> n, dtm |-> NoShape,
     xval |-> xv, wval |-> Tuple([e \in 1..k |-> e], k), dirval |-> dv, muval |-> mv]

MixingArgs(F, n, qw, mw, tw) ==
    [block |-> "mixing", F |-> F, q |-> <<n, 1, qw>>, mu |-> <<n, Spatial, mw>>,
     Wij |-> NoShape, dir_ij |-> NoShape, idx_i |-> <<>>, idx_j |-> <<>>,
     n_atoms |-> n, dtm |-> <<n, tw, Spatial, Spatial>>,
     xval |-> <<>>, wval |-> <<>>, dirval |-> <<>>, muval |-> <<>>]

Called(a) == [phase |-> "called", args |-> a, frame |-> Idle, dq |-> <<>>, dmu |-> <<>>]

\* the per-edge messages of lines 122-128 as values: x = Wij * x[idx_j], whose
\* three chunks dq, dmuR, dmumu share the row value
EdgeMessages(a) == MulVals(a.wval, GatherVals(a.xval, a.idx_j))

\* dmu of line 131 per edge, as values
EdgeVectorMessages(a) ==
    AddVals(MulVals(EdgeMessages(a), a.dirval),
            MulVals(EdgeMessages(a), CompressedVals(2 * a.F, GatherVals(a.muval, a.idx_j))))

\* what a direct call of PaiNNInteraction.forward ends with: the frame, and the
\* values of the grouped sums it got to
InteractionResult(a) ==
    [frame |-> InteractionForward(a.F, a.q, a.mu, a.Wij, a.dir_ij, a.idx_i, a.idx_j, a.n_atoms),
     dq  |-> IF InteractionForward(a.F, a.q, a.mu, a.Wij, a.dir_ij,
                                   a.idx_i, a.idx_j, a.n_atoms).dq_aggregated
             THEN ScatterAdd(EdgeMessages(a), a.idx_i, a.n_atoms) ELSE <<>>,  \* line 129
     dmu |-> IF InteractionForward(a.F, a.q, a.mu, a.Wij, a.dir_ij,
                                   a.idx_i, a.idx_j, a.n_atoms).dmu_aggregated
             THEN ScatterAdd(EdgeVectorMessages(a), a.idx_i, a.n_atoms) ELSE <<>>]  \* line 132

InitBlocks ==
    /\ \E F \in 1..MaxBlockBasis, n \in 1..MaxAtoms :
          \/ \E k \in 0..MaxEdges, qw \in {F, 2 * F}, ww \in {3 * F, 6 * F},
                layout \in {"spatial_first", "channel_first"} :
                \E ii \in BlockEdgeLists(n, k), ij \in BlockEdgeLists(n, k),
                   xv \in ValueLists(n, {-1, 1}), dv \in ValueLists(k, {-1, 1}),
                   mv \in ValueLists(n, {0, 1}) :
                   blk = Called(InteractionArgs(F, n, k, qw, layout, ww, ii, ij, xv, dv, mv))
          \/ \E qw \in 1..(2 * MaxBlockBasis), mw \in 1..(2 * MaxBlockBasis),
                tw \in 1..(2 * MaxBlockBasis) :
                blk = Called(MixingArgs(F, n, qw, mw, tw))
    /\ self = Idle
    /\ inputs = Idle
    /\ pc = "idle"
    /\ filter_list = <<>>
    /\ q = NoShape
    /\ mu = NoShape
    /\ i = 0
    /\ calls = <<>>
    /\ err = NoErr
    /\ out = NoOut
    /\ cl = Idle

\* a client's call of PaiNNInteraction.forward, lines 99-141
InteractionCall ==
    /\ blk.phase = "called"
    /\ blk.args.block = "interaction"
    /\ blk' = [phase |-> "ended", args |-> blk.args,
               frame |-> InteractionResult(blk.args).frame,
               dq |-> InteractionResult(blk.args).dq,
               dmu |-> InteractionResult(blk.args).dmu]
    /\ UNCHANGED <<self, inputs, pc, filter_list, q, mu, i, calls, err, out, cl>>

\* a client's call of PaiNNMixing.forward, lines 166-195
MixingCall ==
    /\ blk.phase = "called"
    /\ blk.args.block = "mixing"
    /\ blk' = [phase |-> "ended", args |-> blk.args,
               frame |-> MixingForward(blk.args.F, blk.args.q, blk.args.mu, blk.args.dtm),
               dq |-> <<>>, dmu |-> <<>>]
    /\ UNCHANGED <<self, inputs, pc, filter_list, q, mu, i, calls, err, out, cl>>

NextBlocks == InteractionCall \/ MixingCall

SpecBlocks == InitBlocks /\ [][NextBlocks]_vars

\* ------------------------------------------------- claims on a block call
\* the call a client makes with the shapes of the data model: q [atoms, 1, F],
\* mu [atoms, 3, 2F], Wij [edges, 1, 3F], dir_ij [edges, 3], indices in range
WellFormedCall(a) ==
    /\ a.block = "interaction"
    /\ a.q = <<a.n_atoms, 1, a.F>>
    /\ a.mu = <<a.n_atoms, Spatial, 2 * a.F>>
    /\ a.Wij = <<Len(a.idx_i), 1, 3 * a.F>>
    /\ a.dir_ij = <<Len(a.idx_i), Spatial>>
    /\ InRange(a.idx_i, a.n_atoms)
    /\ InRange(a.idx_j, a.n_atoms)

InteractionEnded == blk.phase = "ended" /\ blk.args.block = "interaction"

EdgesInto(a, atom) == {e \in 1..Len(a.idx_i) : a.idx_i[e] = atom}

RECURSIVE SumOver(_, _)
SumOver(vals, S) ==
    IF S = {} THEN 0
    ELSE LET e == CHOOSE x \in S : TRUE IN vals[e] + SumOver(vals, S \ {e})

\* C7: a finished InteractionBlock call on well-formed input has aggregated
\* both dq and dmu into exactly atom_count rows, and row a of each is the sum
\* of the per-edge messages over exactly the edges e with idx_i[e] = a (so it
\* is zero for an atom with no incoming edge).
C7_GroupedSums ==
    (InteractionEnded /\ WellFormedCall(blk.args)) =>
        /\ blk.frame.dq_aggregated
        /\ blk.frame.dmu_aggregated
        /\ blk.frame.dq[1] = blk.args.n_atoms
        /\ blk.frame.dmu[1] = blk.args.n_atoms
        /\ Len(blk.dq) = blk.args.n_atoms
        /\ Len(blk.dmu) = blk.args.n_atoms
        /\ \A a \in 1..blk.args.n_atoms :
              /\ blk.dq[a] = SumOver(EdgeMessages(blk.args), EdgesInto(blk.args, a - 1))
              /\ blk.dmu[a] = SumOver(EdgeVectorMessages(blk.args), EdgesInto(blk.args, a - 1))

\* the same call with one permutation applied to idx_i, idx_j, dir_ij and Wij
Permuted(a, p) ==
    [a EXCEPT !.idx_i  = Tuple([e \in 1..Len(a.idx_i) |-> a.idx_i[p[e]]], Len(a.idx_i)),
              !.idx_j  = Tuple([e \in 1..Len(a.idx_i) |-> a.idx_j[p[e]]], Len(a.idx_i)),
              !.dirval = Tuple([e \in 1..Len(a.idx_i) |-> a.dirval[p[e]]], Len(a.idx_i)),
              !.wval   = Tuple([e \in 1..Len(a.idx_i) |-> a.wval[p[e]]], Len(a.idx_i))]

\* C8: for a finished InteractionBlock call on well-formed input, the call on
\* any permutation of its edge list also aggregates dq and dmu, and to the same
\* per-atom values.
C8_OrderIndependent ==
    (InteractionEnded /\ WellFormedCall(blk.args)) =>
        \A p \in Permutations(1..Len(blk.args.idx_i)) :
            /\ InteractionResult(Permuted(blk.args, p)).frame.dq_aggregated
            /\ InteractionResult(Permuted(blk.args, p)).frame.dmu_aggregated
            /\ InteractionResult(Permuted(blk.args, p)).dq = blk.dq
            /\ InteractionResult(Permuted(blk.args, p)).dmu = blk.dmu

\* C10: a finished InteractionBlock call on well-formed input has returned
\* q' = q + dq, mu' = aggregated dmu + the axis-swapped-back compression of
\* mui (the incoming mu is not a term), and dtm = ReconstructionLayer(mu').
C10_AdditiveAndReplacement ==
    (InteractionEnded /\ WellFormedCall(blk.args)) =>
        /\ ~blk.frame.raised
        /\ blk.frame.q = Broadcast(blk.args.q, blk.frame.dq)
        /\ blk.frame.mu = Broadcast(blk.frame.dmu, Transpose12(blk.frame.compressed_vector_vi))
        /\ blk.frame.dtm = ReconstructionForward(blk.args.F, blk.args.F,
                                                 Transpose12(blk.frame.mu)).shape

\* ------------------------- EquivariantCompressionLayer.forward, with values
\* the 3-vectors a channel may hold
VectorValues == {<<0, 0, 0>>, <<1, 0, 0>>, <<-1, 1, 0>>, <<0, -1, 1>>}

RECURSIVE Total(_, _)
Total(w, k) == IF k = 0 THEN 0 ELSE Total(w, k - 1) + w[k]

\* what nn.Softmax(dim=-1) can return for one row of C logits: C positive
\* weights that sum to 1, here in units of 1/WeightScale
Softmax(C) == {w \in ValueLists(C, 1..WeightScale) : Total(w, C) = WeightScale}

\* the contraction over v of 'bvc,bl->blc' that keeps only the last channel
ContractLast(row, w, c, v) == IF v = 0 THEN 0 ELSE row[v][c] * w

\* the contraction over v of 'bvc,bl->blc' for one b, l, c: every product
\* vectors[b,v,c] * weights[b,l] added up
RECURSIVE Contract(_, _, _, _)
Contract(row, w, c, v) ==
    IF v = 0 THEN 0 ELSE Contract(row, w, c, v - 1) + row[v][c] * w

\* torch.einsum('bvc,bl->blc', vectors, weights)
Einsum(vectors, weights) ==
    Tuple([b \in 1..Len(vectors) |->
        Tuple([l \in 1..Len(weights[b]) |->
            Tuple([c \in 1..Spatial |->
                      Contract(vectors[b], weights[b][l], c, Len(vectors[b]))], Spatial)],
              Len(weights[b]))], Len(vectors))

CompressionCalled(V, C, shape, vs) ==
    [phase |-> "called", num_vector_channels |-> V, compressed_channels |-> C,
     vectors_shape |-> shape, vectors |-> vs,
     scalar_invariants |-> NoShape, weights_shape |-> NoShape, weights |-> <<>>,
     compressed_shape |-> NoShape, compressed_vectors |-> <<>>,
     line |-> 0, kind |-> "none"]

CompressionRaised(line, kind) ==
    [cl EXCEPT !.phase = "raised", !.line = line, !.kind = kind]

InitCompression ==
    /\ \E V \in 1..MaxChannels, C \in 1..MaxChannels :
          \/ \E B \in 0..MaxBatch, Vin \in 1..MaxChannels :
                \E vs \in ValueLists(B, ValueLists(Vin, VectorValues)) :
                   cl = CompressionCalled(V, C, <<B, Vin, Spatial>>, vs)
          \/ \E shape \in {<<V, Spatial>>, <<1, 1, V, Spatial>>} :
                cl = CompressionCalled(V, C, shape, <<>>)
    /\ self = Idle
    /\ inputs = Idle
    /\ pc = "idle"
    /\ filter_list = <<>>
    /\ q = NoShape
    /\ mu = NoShape
    /\ i = 0
    /\ calls = <<>>
    /\ err = NoErr
    /\ out = NoOut
    /\ blk = Idle

\* line 27: scalar_invariants = torch.norm(vectors, dim=-1)
CompressionNorm ==
    /\ cl.phase = "called"
    /\ cl' = [cl EXCEPT !.phase = "normed", !.scalar_invariants = DropLast(cl.vectors_shape)]
    /\ UNCHANGED <<self, inputs, pc, filter_list, q, mu, i, calls, err, out, blk>>

\* line 30: weights = self.fc_scalar_weights(scalar_invariants); the network
\* is Linear(V, 32), ReLU, Linear(32, C), Softmax (lines 16-21), its
\* parameters unknown, so each row of weights is any softmax output
CompressionWeights ==
    /\ cl.phase = "normed"
    /\ IF ~LinearOk(cl.scalar_invariants, cl.num_vector_channels)
       THEN cl' = CompressionRaised(30, "RuntimeError")
       ELSE IF Len(cl.scalar_invariants) = 2
       THEN \E w \in ValueLists(cl.scalar_invariants[1], Softmax(cl.compressed_channels)) :
               cl' = [cl EXCEPT !.phase = "weighted", !.weights = w,
                                !.weights_shape = SetLast(cl.scalar_invariants,
                                                          cl.compressed_channels)]
       ELSE cl' = [cl EXCEPT !.phase = "weighted",
                             !.weights_shape = SetLast(cl.scalar_invariants,
                                                       cl.compressed_channels)]
    /\ UNCHANGED <<self, inputs, pc, filter_list, q, mu, i, calls, err, out, blk>>

\* lines 34-38: compressed_vectors = torch.einsum('bvc,bl->blc', vectors,
\* weights), returned; the subscripts need three axes and two axes
CompressionEinsum ==
    /\ cl.phase = "weighted"
    /\ IF Len(cl.vectors_shape) # 3 \/ Len(cl.weights_shape) # 2
       THEN cl' = CompressionRaised(34, "RuntimeError")
       ELSE cl' = [cl EXCEPT !.phase = "ended",
                             !.compressed_shape = <<cl.vectors_shape[1], cl.weights_shape[2],
                                                    cl.vectors_shape[3]>>,
                             !.compressed_vectors = Einsum(cl.vectors, cl.weights)]
    /\ UNCHANGED <<self, inputs, pc, filter_list, q, mu, i, calls, err, out, blk>>

NextCompression == CompressionNorm \/ CompressionWeights \/ CompressionEinsum

SpecCompression == InitCompression /\ [][NextCompression]_vars

\* ------------------------------------------- claim on the CompressionLayer
CompressionOver == cl.phase \in {"ended", "raised"}

\* the call the layer was built for: vectors [B, V, 3], V = num_vector_channels
CompressionInput ==
    /\ Len(cl.vectors_shape) = 3
    /\ cl.vectors_shape[2] = cl.num_vector_channels
    /\ cl.vectors_shape[3] = Spatial

\* the vectors with their V channels reordered by p
PermuteChannels(vectors, p) ==
    Tuple([b \in 1..Len(vectors) |->
              Tuple([v \in 1..Len(vectors[b]) |-> vectors[b][p[v]]], Len(vectors[b]))],
          Len(vectors))

\* component c of the sum of all channels of one batch row
ChannelSum(row, c) == SumOver([v \in 1..Len(row) |-> row[v][c]], 1..Len(row))

\* C9: a CompressionLayer call on vectors [B, V, 3] returns [B, C, 3] with
\* output[b,l,:] = weights[b,l] * (sum over all V channels of vectors[b,v,:]);
\* any two compressed channels of a batch row are multiples of that one sum,
\* and reordering the V channels under the same weights gives the same output.
C9_WeightedSumOfAllChannels ==
    (CompressionOver /\ CompressionInput) =>
        /\ cl.phase = "ended"
        /\ cl.compressed_shape = <<cl.vectors_shape[1], cl.compressed_channels, Spatial>>
        /\ Len(cl.compressed_vectors) = cl.vectors_shape[1]
        /\ \A b \in 1..cl.vectors_shape[1] :
              /\ Len(cl.compressed_vectors[b]) = cl.compressed_channels
              /\ \A l \in 1..cl.compressed_channels, c \in 1..Spatial :
                    cl.compressed_vectors[b][l][c]
                        = cl.weights[b][l] * ChannelSum(cl.vectors[b], c)
              /\ \A l1, l2 \in 1..cl.compressed_channels, c \in 1..Spatial :
                    cl.weights[b][l2] * cl.compressed_vectors[b][l1][c]
                        = cl.weights[b][l1] * cl.compressed_vectors[b][l2][c]
        /\ \A p \in Permutations(1..cl.num_vector_channels) :
              Einsum(PermuteChannels(cl.vectors, p), cl.weights) = cl.compressed_vectors

\* a returned call that pooled two different channels into two compressed
\* channels with different weights
C9_Witness ==
    /\ cl.phase = "ended"
    /\ CompressionInput
    /\ cl.vectors_shape[1] >= 1
    /\ cl.num_vector_channels >= 2
    /\ cl.compressed_channels >= 2
    /\ cl.vectors[1][1] # cl.vectors[1][2]
    /\ cl.vectors[1][1] # <<0, 0, 0>>
    /\ cl.vectors[1][2] # <<0, 0, 0>>
    /\ cl.weights[1][1] # cl.weights[1][2]
    /\ cl.compressed_vectors[1][1] # <<0, 0, 0>>

====
